---- MODULE Spec2Model ----
(***************************************************************************)
(* Model of nanobot/agent/tools/solana.py: six stateless tools, each a     *)
(* single request (or local file scan) followed by a report.               *)
(*                                                                         *)
(* A text (Python str) is a sequence of lexemes; a byte string is a        *)
(* sequence of lexemes that may also hold bytes that are not valid UTF-8.  *)
(* Every lexeme is a record of one shape, [k, s, hi, lo, f]:               *)
(*   k = "p"     punctuation s                                             *)
(*   k = "ws"    white space s (" ", "\n" or "\r\n")                       *)
(*   k = "str"   the string literal whose value is s                       *)
(*   k = "lit"   true, false or null, spelled s                            *)
(*   k = "int"   the integer literal hi * 10^9 + lo                        *)
(*   k = "float" the literal repr(x) of the double x = hi + 0.f (binary)   *)
(*   k = "junk"  characters s that no JSON document contains               *)
(*   k = "byte"  a byte s that is not valid UTF-8                          *)
(* A JSON value (Python object) is a record [t, s, hi, lo, f, kids].       *)
(***************************************************************************)
EXTENDS Integers, Sequences, FiniteSets, TLC

----------------------------------------------------------------------------
(* Lexemes *)

Lex(k, s) == [k |-> k, s |-> s, hi |-> 0, lo |-> 0, f |-> <<>>]
P(s) == Lex("p", s)
WS(s) == Lex("ws", s)
StrLex(s) == Lex("str", s)
Lit(s) == Lex("lit", s)
IntLex(hi, lo) == [k |-> "int", s |-> "", hi |-> hi, lo |-> lo, f |-> <<>>]
FloatLex(ip, f) == [k |-> "float", s |-> "", hi |-> ip, lo |-> 0, f |-> f]
Junk(s) == Lex("junk", s)
BadByte == Lex("byte", "\\xff")

----------------------------------------------------------------------------
(* JSON values, as json.loads builds them and json.dumps takes them *)

JVal(t, s) == [t |-> t, s |-> s, hi |-> 0, lo |-> 0, f |-> <<>>, kids |-> <<>>]
None == JVal("null", "")
JTrue == JVal("bool", "true")
JFalse == JVal("bool", "false")
JStr(s) == JVal("str", s)
JInt(hi, lo) == [t |-> "int", s |-> "", hi |-> hi, lo |-> lo, f |-> <<>>, kids |-> <<>>]
JFloat(ip, f) == [t |-> "float", s |-> "", hi |-> ip, lo |-> 0, f |-> f, kids |-> <<>>]
Member(key, val) == [key |-> key, val |-> val]
JObj(members) == [t |-> "obj", s |-> "", hi |-> 0, lo |-> 0, f |-> <<>>, kids |-> members]
JArr(items) ==
  [t |-> "arr", s |-> "", hi |-> 0, lo |-> 0, f |-> <<>>,
   kids |-> [i \in 1..Len(items) |-> Member("", items[i])]]

(* key in d *)
HasKey(d, key) == \E i \in 1..Len(d.kids) : d.kids[i].key = key

(* d[key], for a key that d holds *)
Item(d, key) == d.kids[CHOOSE i \in 1..Len(d.kids) : d.kids[i].key = key].val

(* d.get(key): None when absent *)
Get(d, key) == IF HasKey(d, key) THEN Item(d, key) ELSE None

(* d[key] = val on a dict under construction: a repeated key keeps its place *)
SetItem(members, key, val) ==
  IF \E i \in 1..Len(members) : members[i].key = key
  THEN [i \in 1..Len(members) |->
          IF members[i].key = key THEN Member(key, val) ELSE members[i]]
  ELSE Append(members, Member(key, val))

----------------------------------------------------------------------------
(* json.dumps with the default separators ", " and ": " *)

RECURSIVE Dumps(_)
RECURSIVE DumpKids(_, _, _)

DumpKids(kids, i, isObj) ==
  IF i > Len(kids) THEN <<>>
  ELSE (IF i > 1 THEN <<P(","), WS(" ")>> ELSE <<>>)
       \o (IF isObj THEN <<StrLex(kids[i].key), P(":"), WS(" ")>> ELSE <<>>)
       \o Dumps(kids[i].val)
       \o DumpKids(kids, i + 1, isObj)

Dumps(v) ==
  CASE v.t = "null" -> <<Lit("null")>>
    [] v.t = "bool" -> <<Lit(v.s)>>
    [] v.t = "str" -> <<StrLex(v.s)>>
    [] v.t = "int" -> <<IntLex(v.hi, v.lo)>>
    [] v.t = "float" -> <<FloatLex(v.hi, v.f)>>
    [] v.t = "obj" -> <<P("{")>> \o DumpKids(v.kids, 1, TRUE) \o <<P("}")>>
    [] v.t = "arr" -> <<P("[")>> \o DumpKids(v.kids, 1, FALSE) \o <<P("]")>>

----------------------------------------------------------------------------
(* json.loads: a recursive-descent parse; [ok, v, nxt] *)

ParseFail == [ok |-> FALSE, v |-> None, nxt |-> 0]
ParseOk(v, nxt) == [ok |-> TRUE, v |-> v, nxt |-> nxt]

RECURSIVE SkipWs(_, _)
SkipWs(t, i) == IF i <= Len(t) /\ t[i].k = "ws" THEN SkipWs(t, i + 1) ELSE i

IsP(t, i, s) == i <= Len(t) /\ t[i].k = "p" /\ t[i].s = s

RECURSIVE ParseValue(_, _)
RECURSIVE ParseMembers(_, _, _)
RECURSIVE ParseItems(_, _, _)

(* after a member's value, at n: "}" ends the object, "," goes on *)
ParseMemberEnd(t, n, acc) ==
  IF IsP(t, n, "}") THEN ParseOk(JObj(acc), n + 1)
  ELSE IF IsP(t, n, ",") THEN ParseMembers(t, SkipWs(t, n + 1), acc)
  ELSE ParseFail

(* the member's value r, stored under key *)
ParseMemberValue(t, key, r, acc) ==
  IF ~r.ok THEN ParseFail
  ELSE ParseMemberEnd(t, SkipWs(t, r.nxt), SetItem(acc, key, r.v))

(* after the key, at j: ":" and the value *)
ParseMemberColon(t, key, j, acc) ==
  IF ~IsP(t, j, ":") THEN ParseFail
  ELSE ParseMemberValue(t, key, ParseValue(t, SkipWs(t, j + 1)), acc)

(* at i, after "{" or ",": "key" : value, then "," or "}" *)
ParseMembers(t, i, acc) ==
  IF ~(i <= Len(t) /\ t[i].k = "str") THEN ParseFail
  ELSE ParseMemberColon(t, t[i].s, SkipWs(t, i + 1), acc)

(* after an item, at n: "]" ends the array, "," goes on *)
ParseItemEnd(t, n, acc) ==
  IF IsP(t, n, "]") THEN ParseOk(JArr(acc), n + 1)
  ELSE IF IsP(t, n, ",") THEN ParseItems(t, SkipWs(t, n + 1), acc)
  ELSE ParseFail

(* the item r, appended *)
ParseItemValue(t, r, acc) ==
  IF ~r.ok THEN ParseFail
  ELSE ParseItemEnd(t, SkipWs(t, r.nxt), Append(acc, r.v))

(* at i, after "[" or ",": value, then "," or "]" *)
ParseItems(t, i, acc) == ParseItemValue(t, ParseValue(t, i), acc)

(* at j, after "{" *)
ParseObject(t, j) ==
  IF IsP(t, j, "}") THEN ParseOk(JObj(<<>>), j + 1) ELSE ParseMembers(t, j, <<>>)

(* at j, after "[" *)
ParseArray(t, j) ==
  IF IsP(t, j, "]") THEN ParseOk(JArr(<<>>), j + 1) ELSE ParseItems(t, j, <<>>)

(* a value at i, where no white space stands *)
ParseValue(t, i) ==
  IF i > Len(t) THEN ParseFail
  ELSE CASE t[i].k = "lit" ->
              ParseOk(IF t[i].s = "null" THEN None ELSE JVal("bool", t[i].s), i + 1)
         [] t[i].k = "str" -> ParseOk(JStr(t[i].s), i + 1)
         [] t[i].k = "int" -> ParseOk(JInt(t[i].hi, t[i].lo), i + 1)
         [] t[i].k = "float" -> ParseOk(JFloat(t[i].hi, t[i].f), i + 1)
         [] IsP(t, i, "{") -> ParseObject(t, SkipWs(t, i + 1))
         [] IsP(t, i, "[") -> ParseArray(t, SkipWs(t, i + 1))
         [] OTHER -> ParseFail

(* the whole text is one value and white space around it *)
ParseDocument(text, r) ==
  IF r.ok /\ SkipWs(text, r.nxt) = Len(text) + 1 THEN r ELSE ParseFail

(* json.loads(text): ok = FALSE stands for json.JSONDecodeError *)
Loads(text) == ParseDocument(text, ParseValue(text, SkipWs(text, 1)))

(* the text is a JSON document *)
IsJSON(text) == Loads(text).ok

----------------------------------------------------------------------------
(* lamports / 1_000_000_000: Python's true division of two ints, which is   *)
(* the IEEE-754 double nearest to the quotient (round half to even).        *)
(* An integer n is held as hi * 10^9 + lo with 0 <= lo < 10^9, so the       *)
(* quotient is hi + lo / 10^9; the double is held as hi + 0.f in binary.    *)

LAMPORTS_PER_SOL == 1000000000

(* significant bits of a double *)
MANT_BITS == 53

RECURSIVE BitLen(_)
BitLen(n) == IF n = 0 THEN 0 ELSE 1 + BitLen(n \div 2)

(* 10^9 = 2^9 * 5^9, so lo / 10^9 = (q0 + r0 / 5^9) / 2^9 with
   q0 = lo \div 5^9 < 2^9 and r0 = lo % 5^9: the binary digits of lo / 10^9
   are the nine digits of q0, then the digits of r0 / 5^9, which are taken
   ten at a time (r * 2^10 stays below 2^31). *)
OddPart == LAMPORTS_PER_SOL \div 2^9

(* (r0 * 2^(10 * j)) % 5^9: what is left of r0 / 5^9 after 10 * j digits *)
RECURSIVE ChunkRem(_, _)
ChunkRem(r0, j) == IF j = 0 THEN r0 ELSE (ChunkRem(r0, j - 1) * 2^10) % OddPart

(* the p-th binary digit of lo / 10^9 after the point, p >= 1 *)
FracBit(lo, p) ==
  IF p <= 9 THEN ((lo \div OddPart) \div 2^(9 - p)) % 2
  ELSE LET k == p - 10
           chunk == (ChunkRem(lo % OddPart, k \div 10) * 2^10) \div OddPart
       IN (chunk \div 2^(9 - (k % 10))) % 2

(* lo / 10^9 has a nonzero digit after its p-th *)
FracRest(lo, p) ==
  IF p < 9 THEN (lo \div OddPart) % 2^(9 - p) # 0 \/ lo % OddPart # 0
  ELSE LET k == p - 9
       IN (ChunkRem(lo % OddPart, k \div 10) * 2^(k % 10)) % OddPart # 0

(* add one unit in the last place; carry = 1 when it runs into the integer part *)
Increment(bits) ==
  LET zeros == {i \in 1..Len(bits) : bits[i] = 0} IN
  IF zeros = {} THEN [carry |-> 1, bits |-> [i \in 1..Len(bits) |-> 0]]
  ELSE LET z == CHOOSE i \in zeros : \A j \in zeros : j <= i
       IN [carry |-> 0,
           bits |-> [i \in 1..Len(bits) |->
                       IF i < z THEN bits[i] ELSE IF i = z THEN 1 ELSE 0]]

StripZeros(bits) ==
  LET ones == {i \in 1..Len(bits) : bits[i] = 1} IN
  IF ones = {} THEN <<>>
  ELSE SubSeq(bits, 1, CHOOSE i \in ones : \A j \in ones : j <= i)

(* (hi * 10^9 + lo) / 1_000_000_000 as a float: MANT_BITS significant bits
   are kept (the leading zeros of a quotient below 1 do not count), and the
   rest is rounded half to even *)
TrueDiv(hi, lo) ==
  LET first == CHOOSE p \in 1..30 : FracBit(lo, p) = 1 /\ \A q \in 1..(p - 1) : FracBit(lo, q) = 0
      n == IF lo = 0 THEN 0
           ELSE IF hi > 0 THEN MANT_BITS - BitLen(hi)
           ELSE first - 1 + MANT_BITS
      kept == [p \in 1..n |-> FracBit(lo, p)]
      odd == IF n = 0 THEN hi % 2 = 1 ELSE kept[n] = 1
      roundUp == FracBit(lo, n + 1) = 1 /\ (FracRest(lo, n + 1) \/ odd)
      up == IF roundUp THEN Increment(kept) ELSE [carry |-> 0, bits |-> kept]
  IN JFloat(hi + up.carry, StripZeros(up.bits))

----------------------------------------------------------------------------
(* Exceptions and the outcome of a call *)

Exc(type, msg) == [type |-> type, code |-> 0, msg |-> msg]
HTTPError(code, msg) == [type |-> "HTTPError", code |-> code, msg |-> msg]
NoExc == Exc("", "")

(* str(e) *)
Str(e) == e.msg

(* a step of a try body: it raised e, or it went on with the value val *)
Raised(e) == [raised |-> TRUE, exc |-> e, val |-> <<>>]
Went(val) == [raised |-> FALSE, exc |-> NoExc, val |-> val]

(* type(v).__name__ *)
PyType(v) ==
  CASE v.t = "obj" -> "dict"
    [] v.t = "arr" -> "list"
    [] v.t = "null" -> "NoneType"
    [] OTHER -> v.t

(* bytes.decode(): UTF-8, strict *)
Decode(bytes) ==
  IF \E i \in 1..Len(bytes) : bytes[i].k = "byte"
  THEN Raised(Exc("UnicodeDecodeError",
         "'utf-8' codec can't decode byte 0xff in position 0: invalid start byte"))
  ELSE Went(bytes)

(* str.encode() *)
Encode(text) == text

(* json.loads as a step *)
JsonLoads(text) ==
  LET r == Loads(text) IN
  IF r.ok THEN Went(r.v)
  ELSE Raised(Exc("JSONDecodeError", "Expecting value: line 1 column 1 (char 0)"))

(* v.get(key), v.get(key, default) *)
DictGet(v, key, default) ==
  IF v.t = "obj" THEN Went(IF HasKey(v, key) THEN Item(v, key) ELSE default)
  ELSE Raised(Exc("AttributeError",
         "'" \o PyType(v) \o "' object has no attribute 'get'"))

(* key in v *)
Contains(v, key) ==
  CASE v.t = "obj" -> Went(HasKey(v, key))
    [] v.t = "arr" -> Went(\E i \in 1..Len(v.kids) : v.kids[i].val = JStr(key))
    [] v.t = "str" -> Went(v.s = key)
    [] OTHER -> Raised(Exc("TypeError",
                  "argument of type '" \o PyType(v) \o "' is not iterable"))

(* v[key] for a str key *)
Subscript(v, key) ==
  CASE v.t = "obj" ->
         IF HasKey(v, key) THEN Went(Item(v, key))
         ELSE Raised(Exc("KeyError", "'" \o key \o "'"))
    [] v.t = "arr" ->
         Raised(Exc("TypeError", "list indices must be integers or slices, not str"))
    [] v.t = "str" ->
         Raised(Exc("TypeError", "string indices must be integers, not 'str'"))
    [] OTHER ->
         Raised(Exc("TypeError", "'" \o PyType(v) \o "' object is not subscriptable"))

(* the slip lamports // 1_000_000_000: the whole SOL only *)
DivideByLamportsPerSol_floor(v) ==
  CASE v.t = "int" -> Went(JInt(0, v.hi))
    [] v.t = "bool" -> Went(JInt(0, 0))
    [] OTHER -> Raised(Exc("TypeError",
                  "unsupported operand type(s) for //: '" \o PyType(v) \o "' and 'int'"))

(* v / 1_000_000_000: an int (a bool is the int 0 or 1) divides; str, None,
   list and dict raise TypeError *)
DivideByLamportsPerSol(v) ==
  CASE v.t = "int" -> Went(TrueDiv(v.hi, v.lo))
    [] v.t = "bool" -> Went(TrueDiv(0, IF v.s = "true" THEN 1 ELSE 0))
    [] OTHER -> Raised(Exc("TypeError",
                  "unsupported operand type(s) for /: '" \o PyType(v) \o "' and 'int'"))

----------------------------------------------------------------------------
(* The network: one urlopen call and the read of its response *)

SAID_API == "https://api.saidprotocol.com"
DEFAULT_RPC_URL == "https://api.mainnet-beta.solana.com"

(* timeout=10 of every urlopen call *)
TIMEOUT == 10

(* what the upstream does with one request *)
Resp(kind, code, msg, body) == [kind |-> kind, code |-> code, msg |-> msg, body |-> body]

(* urllib.request.Request(url, data=..., method=...) / a bare URL *)
Request(method, url, data) ==
  [op |-> "request", method |-> method, url |-> url, data |-> data, timeout |-> TIMEOUT]

(* with urllib.request.urlopen(req, timeout=10) as resp: resp.read()
   A status outside 2xx raises HTTPError; a transport fault raises URLError;
   a fault while the body is read raises from read(). *)
UrlOpenRead(resp) ==
  CASE resp.kind = "ok" -> Went(resp.body)
    [] resp.kind = "http" -> Raised(HTTPError(resp.code, resp.msg))
    [] resp.kind = "timeout" -> Raised(Exc("URLError", resp.msg))
    [] resp.kind = "fault" -> Raised(Exc("URLError", resp.msg))
    [] resp.kind = "read_timeout" -> Raised(Exc("TimeoutError", resp.msg))

(* os.getenv(name, default) *)
Getenv(var, default) == IF var.set THEN var.val ELSE default

(* what execute hands to its caller *)
Return(text, effects) == [outcome |-> "returned", result |-> text, effects |-> effects]
Propagate(e, effects) == [outcome |-> "raised", result |-> <<>>, effects |-> effects]

----------------------------------------------------------------------------
(* GetBalanceTool *)

ErrorDoc(msg) == JObj(<<Member("error", JStr(msg))>>)

(* the body of the try block: the text to return, or the exception raised *)
GetBalanceTool_try(address, resp) ==
  LET body == UrlOpenRead(resp)
      text == Decode(body.val)
      data == JsonLoads(text.val)
      has == Contains(data.val, "result")
      result == Subscript(data.val, "result")
      lamports == Subscript(result.val, "value")
      sol == DivideByLamportsPerSol(lamports.val)
      err == DictGet(data.val, "error", JStr("Unknown error"))
  IN IF body.raised THEN body
     ELSE IF text.raised THEN text
     ELSE IF data.raised THEN data
     ELSE IF has.raised THEN has
     ELSE IF has.val
          THEN IF result.raised THEN result
               ELSE IF lamports.raised THEN lamports
               ELSE IF sol.raised THEN sol
               ELSE Went(Dumps(JObj(<<Member("address", JStr(address)),
                                      Member("balance_sol", sol.val),
                                      Member("balance_lamports", lamports.val)>>)))
          ELSE IF err.raised THEN err
               ELSE Went(Dumps(JObj(<<Member("error", err.val)>>)))

GetBalanceTool_payload(address) ==
  Encode(Dumps(JObj(<<Member("jsonrpc", JStr("2.0")),
                      Member("id", JInt(0, 1)),
                      Member("method", JStr("getBalance")),
                      Member("params", JArr(<<JStr(address)>>))>>)))

GetBalanceTool_execute(address, rpcEnv, resp) ==
  LET rpc_url == Getenv(rpcEnv, DEFAULT_RPC_URL)
      req == Request("POST", rpc_url, GetBalanceTool_payload(address))
      r == GetBalanceTool_try(address, resp)
  IN IF r.raised THEN Return(Dumps(ErrorDoc(Str(r.exc))), <<req>>)
     ELSE Return(r.val, <<req>>)

----------------------------------------------------------------------------
(* VerifyAgentTool *)

ProfileUrl(wallet) == "https://www.saidprotocol.com/agent.html?wallet=" \o wallet

VerifiedDoc(agent, wallet) ==
  JObj(<<Member("verified", JTrue),
         Member("name", Get(agent, "name")),
         Member("wallet", Get(agent, "wallet")),
         Member("pda", Get(agent, "pda")),
         Member("isVerified", Get(agent, "isVerified")),
         Member("reputationScore", Get(agent, "reputationScore")),
         Member("description", Get(agent, "description")),
         Member("profile", JStr(ProfileUrl(wallet)))>>)

NotVerifiedDoc(msg) == JObj(<<Member("verified", JFalse), Member("error", JStr(msg))>>)

VerifyAgentTool_try(wallet, resp) ==
  LET body == UrlOpenRead(resp)
      text == Decode(body.val)
      agent == JsonLoads(text.val)
      name == DictGet(agent.val, "name", None)
  IN IF body.raised THEN body
     ELSE IF text.raised THEN text
     ELSE IF agent.raised THEN agent
     ELSE IF name.raised THEN name
     ELSE Went(Dumps(VerifiedDoc(agent.val, wallet)))

(* the slip of leaving out the 404 branch *)
VerifyAgentTool_execute_no404(wallet, resp) ==
  LET req == Request("GET", SAID_API \o "/api/agents/" \o wallet, <<>>)
      r == VerifyAgentTool_try(wallet, resp)
  IN IF ~r.raised THEN Return(r.val, <<req>>)
     ELSE Return(Dumps(NotVerifiedDoc(Str(r.exc))), <<req>>)

VerifyAgentTool_execute(wallet, resp) ==
  LET req == Request("GET", SAID_API \o "/api/agents/" \o wallet, <<>>)
      r == VerifyAgentTool_try(wallet, resp)
  IN IF ~r.raised THEN Return(r.val, <<req>>)
     ELSE IF r.exc.type = "HTTPError" /\ r.exc.code = 404
     THEN Return(Dumps(NotVerifiedDoc("Agent not found in SAID registry")), <<req>>)
     ELSE Return(Dumps(NotVerifiedDoc(Str(r.exc))), <<req>>)

----------------------------------------------------------------------------
(* LookupAgentTool and GetTrustScoreTool *)

(* the slip json.dumps(json.loads(resp.read().decode())) *)
ReadDecode_reserialised(resp) ==
  LET body == UrlOpenRead(resp)
      text == Decode(body.val)
      data == JsonLoads(text.val)
  IN IF body.raised THEN body
     ELSE IF text.raised THEN text
     ELSE IF data.raised THEN data
     ELSE Went(Dumps(data.val))

(* resp.read().decode() *)
ReadDecode(resp) ==
  LET body == UrlOpenRead(resp) IN
  IF body.raised THEN body ELSE Decode(body.val)

LookupAgentTool_execute(wallet, resp) ==
  LET req == Request("GET", SAID_API \o "/api/agents/" \o wallet, <<>>)
      r == ReadDecode(resp)
  IN IF ~r.raised THEN Return(r.val, <<req>>)
     ELSE IF r.exc.type = "HTTPError" /\ r.exc.code = 404
     THEN Return(Dumps(ErrorDoc("Agent not found")), <<req>>)
     ELSE Return(Dumps(ErrorDoc(Str(r.exc))), <<req>>)

(* the slip return str(e) *)
GetTrustScoreTool_execute_rawError(wallet, resp) ==
  LET req == Request("GET", SAID_API \o "/api/trust/" \o wallet, <<>>)
      r == ReadDecode(resp)
  IN IF ~r.raised THEN Return(r.val, <<req>>)
     ELSE Return(<<Junk(Str(r.exc))>>, <<req>>)

GetTrustScoreTool_execute(wallet, resp) ==
  LET req == Request("GET", SAID_API \o "/api/trust/" \o wallet, <<>>)
      r == ReadDecode(resp)
  IN IF ~r.raised THEN Return(r.val, <<req>>)
     ELSE Return(Dumps(ErrorDoc(Str(r.exc))), <<req>>)

----------------------------------------------------------------------------
(* RegisterAgentTool *)

(* the slip of sending description as given *)
DescriptionOrDefault_noDefault(name, description) == description

(* description or f"{name} - AI Agent" *)
DescriptionOrDefault(name, description) ==
  IF description # "" THEN description ELSE name \o " - AI Agent"

RegisterAgentTool_payload(wallet, name, description) ==
  Encode(Dumps(JObj(<<Member("wallet", JStr(wallet)),
                      Member("name", JStr(name)),
                      Member("description",
                             JStr(DescriptionOrDefault(name, description)))>>)))

RegisterAgentTool_try(resp) ==
  LET body == UrlOpenRead(resp)
      text == Decode(body.val)
      result == JsonLoads(text.val)
      wallet == DictGet(result.val, "wallet", None)
  IN IF body.raised THEN body
     ELSE IF text.raised THEN text
     ELSE IF result.raised THEN result
     ELSE IF wallet.raised THEN wallet
     ELSE Went(Dumps(JObj(<<Member("success", JTrue),
                            Member("wallet", wallet.val),
                            Member("pda", Get(result.val, "pda")),
                            Member("profile", Get(result.val, "profile")),
                            Member("status", JStr("PENDING"))>>)))

(* the slip of sending the POST again after a timeout *)
RegisterAgentTool_execute_retry(wallet, name, description, resp) ==
  LET req == Request("POST", SAID_API \o "/api/register/pending",
                     RegisterAgentTool_payload(wallet, name, description))
      r == RegisterAgentTool_try(resp)
      sent == IF r.raised /\ r.exc.type = "URLError" THEN <<req, req>> ELSE <<req>>
  IN IF r.raised
     THEN Return(Dumps(JObj(<<Member("success", JFalse),
                              Member("error", JStr(Str(r.exc)))>>)), sent)
     ELSE Return(r.val, sent)

(* description is the argument as bound: "" when the caller leaves it out *)
RegisterAgentTool_execute(wallet, name, description, resp) ==
  LET req == Request("POST", SAID_API \o "/api/register/pending",
                     RegisterAgentTool_payload(wallet, name, description))
      r == RegisterAgentTool_try(resp)
  IN IF r.raised
     THEN Return(Dumps(JObj(<<Member("success", JFalse),
                              Member("error", JStr(Str(r.exc)))>>)), <<req>>)
     ELSE Return(r.val, <<req>>)

----------------------------------------------------------------------------
(* GetMyIdentityTool *)

PathJoin(dir, name) == dir \o "/" \o name

(* Path.home(): RuntimeError when no home directory can be determined *)
PathHome(home) ==
  IF home.ok THEN Went(home.dir)
  ELSE Raised(Exc("RuntimeError", "Could not determine home directory."))

(* the three candidates, in the order of the list *)
CandidatePaths(workspace, homeDir) ==
  <<PathJoin(workspace, "said.json"),
    PathJoin(PathJoin(homeDir, ".nanobot"), "said.json"),
    PathJoin(PathJoin(PathJoin(homeDir, ".config"), "said"), "identity.json")>>

(* universal newlines of a text-mode read: "\r\n" and "\r" become "\n" *)
TranslateNewlines(text) ==
  [i \in 1..Len(text) |->
     IF text[i].k = "ws" /\ text[i].s \in {"\r\n", "\r"} THEN WS("\n") ELSE text[i]]

(* with open(path) as f: f.read() *)
OpenRead(file) ==
  IF ~file.readable
  THEN Raised(Exc("PermissionError", "[Errno 13] Permission denied"))
  ELSE LET text == Decode(file.content) IN
       IF text.raised THEN text ELSE Went(TranslateNewlines(text.val))

FileOp(op, path) ==
  [op |-> op, method |-> "r", url |-> path, data |-> <<>>, timeout |-> 0]

NOT_FOUND_MESSAGE == "SAID identity not found. Register first with register_said_agent."

(* for path in paths[i:] ... ; then the not-found document *)
RECURSIVE ScanPaths(_, _, _, _)
ScanPaths(paths, i, fs, effects) ==
  IF i > Len(paths) THEN Return(Dumps(ErrorDoc(NOT_FOUND_MESSAGE)), effects)
  ELSE LET file == fs[paths[i]]
           stat == Append(effects, FileOp("stat", paths[i]))
           open == Append(stat, FileOp("open", paths[i]))
           r == OpenRead(file)
       IN IF ~file.exists THEN ScanPaths(paths, i + 1, fs, stat)
          ELSE IF r.raised THEN ScanPaths(paths, i + 1, fs, open)
          ELSE Return(r.val, open)

(* fs[path] is the state of the file at path *)
GetMyIdentityTool_execute(workspace, home, fs) ==
  LET h == PathHome(home) IN
  IF h.raised THEN Propagate(h.exc, <<>>)
  ELSE ScanPaths(CandidatePaths(workspace, h.val), 1, fs, <<>>)

----------------------------------------------------------------------------
(* The inputs: arguments of the calls, and what the environment answers *)

Wallets == {"WalletA", "WalletB"}
Names == {"Bot1", "Zed"}

(* the description argument: left out, or given *)
DescriptionArgs ==
  {[given |-> FALSE, val |-> ""]}
  \cup {[given |-> TRUE, val |-> d] : d \in {"", " ", "Trading bot"}}

(* description: str = "" of the signature *)
DescriptionParam(arg) == IF arg.given THEN arg.val ELSE ""

(* SOLANA_RPC_URL: unset, or set *)
RpcEnvs == {[set |-> FALSE, val |-> ""], [set |-> TRUE, val |-> "http://localhost:8899"]}

(* lamport counts hi * 10^9 + lo *)
MaxSmallLamports == 3
LamportCases ==
  {JInt(hi, lo) : hi \in {0, 1, 8388608},
                  lo \in (0..MaxSmallLamports) \cup {1953125, 500000000, 999999999}}

RpcError == JObj(<<Member("code", JInt(0, 429)), Member("message", JStr("Too many requests"))>>)

(* a JSON-RPC success response, as the endpoint formats it (no spaces) *)
RpcResultBody(lamports) ==
  <<P("{"), StrLex("jsonrpc"), P(":"), StrLex("2.0"), P(","),
    StrLex("result"), P(":"), P("{"), StrLex("context"), P(":"), P("{"),
    StrLex("slot"), P(":"), IntLex(0, 1), P("}"), P(","),
    StrLex("value"), P(":")>> \o Dumps(lamports) \o <<P("}"), P(","),
    StrLex("id"), P(":"), IntLex(0, 1), P("}")>>

RpcBodies ==
  {RpcResultBody(l) : l \in LamportCases}
  \cup {Dumps(JObj(<<Member("jsonrpc", JStr("2.0")), Member("error", RpcError)>>)),
        Dumps(JObj(<<Member("result", None), Member("error", RpcError)>>)),
        Dumps(JObj(<<Member("error", RpcError),
                     Member("result", JObj(<<Member("value", JInt(0, 5))>>))>>)),
        Dumps(JObj(<<Member("result", JObj(<<>>))>>)),
        Dumps(JObj(<<Member("result", JObj(<<Member("value", JStr("abc"))>>))>>)),
        Dumps(JObj(<<Member("result", JObj(<<Member("value", JTrue)>>))>>))}

AgentRecord(wallet) ==
  JObj(<<Member("wallet", JStr(wallet)), Member("pda", JStr("Pda1")),
         Member("name", JStr("Alice")), Member("description", JStr("An agent")),
         Member("isVerified", JTrue), Member("reputationScore", JInt(0, 50)),
         Member("skills", JArr(<<JStr("trade")>>)),
         Member("profile", JStr("https://www.saidprotocol.com/agents/1"))>>)

(* the same document under another layout *)
Pretty(text) == <<Head(text), WS("\n")>> \o Tail(text) \o <<WS("\n")>>

RegistryBodies ==
  {Dumps(AgentRecord(w)) : w \in Wallets}
  \cup {Pretty(Dumps(AgentRecord(w))) : w \in Wallets}
  \cup {Dumps(VerifiedDoc(JObj(<<>>), w)) : w \in Wallets}
  \cup {Dumps(JObj(<<>>)), Dumps(JArr(<<>>)), Dumps(None),
        <<>>, <<Junk("<html>")>>, <<P("{"), StrLex("name"), P(":")>>, <<BadByte>>}

Bodies == RpcBodies \cup RegistryBodies

ErrorBodies == {<<>>, <<Junk("<html>")>>, Dumps(ErrorDoc("not found"))}

Responses ==
  {Resp("ok", 200, "", b) : b \in Bodies}
  \cup {Resp("http", 404, "HTTP Error 404: Not Found", b) : b \in ErrorBodies}
  \cup {Resp("http", 500, "HTTP Error 500: Internal Server Error", b) : b \in ErrorBodies}
  \cup {Resp("timeout", 0, "<urlopen error timed out>", <<>>),
        Resp("fault", 0, "<urlopen error [Errno 111] Connection refused>", <<>>),
        Resp("read_timeout", 200, "The read operation timed out", <<>>)}

NoResp == Resp("none", 0, "", <<>>)

(* the local files *)
WORKSPACE == "/workspace"
HOME_DIR == "/home/agent"
Homes == {[ok |-> TRUE, dir |-> HOME_DIR], [ok |-> FALSE, dir |-> ""]}

File(exists, readable, content) ==
  [exists |-> exists, readable |-> readable, content |-> content]

IdentityDoc(wallet) == JObj(<<Member("wallet", JStr(wallet)), Member("name", JStr("Bot1"))>>)

FileContents ==
  {Dumps(IdentityDoc(w)) : w \in Wallets}
  \cup {Dumps(IdentityDoc("WalletA")) \o <<WS("\r\n")>>,
        <<Junk("# notes")>>,
        <<BadByte>>}

FileStates ==
  {File(FALSE, FALSE, <<>>), File(TRUE, FALSE, <<>>)}
  \cup {File(TRUE, TRUE, c) : c \in FileContents}

PathSet == {CandidatePaths(WORKSPACE, HOME_DIR)[i] : i \in 1..3}
FileSystems == [PathSet -> FileStates]
NoFiles == [p \in PathSet |-> File(FALSE, FALSE, <<>>)]

----------------------------------------------------------------------------
(* The state: the last call of a tool, what it met and what it handed back *)

VARIABLES
  tool,     \* name of the tool called last, "none" before the first call
  args,     \* its arguments
  env,      \* what the environment held: the upstream's answer, the files
  outcome,  \* "returned" or "raised"
  result,   \* the string returned
  effects   \* the requests and file operations the call issued, in order

vars == <<tool, args, env, outcome, result, effects>>

Args(address, wallet, name, description) ==
  [address |-> address, wallet |-> wallet, name |-> name, description |-> description]

NoDescription == [given |-> FALSE, val |-> ""]

Env(rpcEnv, resp, home, fs) == [rpcEnv |-> rpcEnv, resp |-> resp, home |-> home, fs |-> fs]

NoRpcEnv == [set |-> FALSE, val |-> ""]
HomeOk == [ok |-> TRUE, dir |-> HOME_DIR]

Init ==
  /\ tool = "none"
  /\ args = Args("", "", "", NoDescription)
  /\ env = Env(NoRpcEnv, NoResp, HomeOk, NoFiles)
  /\ outcome = "none"
  /\ result = <<>>
  /\ effects = <<>>

(* The tools keep nothing between calls (GetMyIdentityTool keeps only its
   workspace), so every call starts from the state after construction. *)
Fresh == tool = "none"

Handed(r) ==
  /\ outcome' = r.outcome
  /\ result' = r.result
  /\ effects' = r.effects

GetBalance ==
  /\ Fresh
  /\ \E address \in Wallets, rpcEnv \in RpcEnvs, resp \in Responses :
       /\ tool' = "get_sol_balance"
       /\ args' = Args(address, "", "", NoDescription)
       /\ env' = Env(rpcEnv, resp, HomeOk, NoFiles)
       /\ Handed(GetBalanceTool_execute(address, rpcEnv, resp))

VerifyAgent ==
  /\ Fresh
  /\ \E wallet \in Wallets, resp \in Responses :
       /\ tool' = "verify_said_agent"
       /\ args' = Args("", wallet, "", NoDescription)
       /\ env' = Env(NoRpcEnv, resp, HomeOk, NoFiles)
       /\ Handed(VerifyAgentTool_execute(wallet, resp))

LookupAgent ==
  /\ Fresh
  /\ \E wallet \in Wallets, resp \in Responses :
       /\ tool' = "lookup_said_agent"
       /\ args' = Args("", wallet, "", NoDescription)
       /\ env' = Env(NoRpcEnv, resp, HomeOk, NoFiles)
       /\ Handed(LookupAgentTool_execute(wallet, resp))

GetTrustScore ==
  /\ Fresh
  /\ \E wallet \in Wallets, resp \in Responses :
       /\ tool' = "get_trust_score"
       /\ args' = Args("", wallet, "", NoDescription)
       /\ env' = Env(NoRpcEnv, resp, HomeOk, NoFiles)
       /\ Handed(GetTrustScoreTool_execute(wallet, resp))

RegisterAgent ==
  /\ Fresh
  /\ \E wallet \in Wallets, name \in Names, description \in DescriptionArgs,
        resp \in Responses :
       /\ tool' = "register_said_agent"
       /\ args' = Args("", wallet, name, description)
       /\ env' = Env(NoRpcEnv, resp, HomeOk, NoFiles)
       /\ Handed(RegisterAgentTool_execute(wallet, name, DescriptionParam(description), resp))

GetMyIdentity ==
  /\ Fresh
  /\ \E home \in Homes, fs \in FileSystems :
       /\ tool' = "get_my_said_identity"
       /\ args' = Args("", "", "", NoDescription)
       /\ env' = Env(NoRpcEnv, NoResp, home, fs)
       /\ Handed(GetMyIdentityTool_execute(WORKSPACE, home, fs))

Next ==
  \/ GetBalance
  \/ VerifyAgent
  \/ LookupAgent
  \/ GetTrustScore
  \/ RegisterAgent
  \/ GetMyIdentity

Spec == Init /\ [][Next]_vars

----------------------------------------------------------------------------
(* What the properties speak of *)

NetworkTools ==
  {"get_sol_balance", "verify_said_agent", "lookup_said_agent", "get_trust_score",
   "register_said_agent"}

ValidUtf8(bytes) == \A i \in 1..Len(bytes) : bytes[i].k # "byte"

(* the text is a JSON object *)
IsObject(text) == IsJSON(text) /\ Loads(text).v.t = "obj"

(* the value of a field of a JSON object, None when absent *)
Field(text, key) == Get(Loads(text).v, key)

(* the field names of a JSON object, in order *)
Keys(text) == [i \in 1..Len(Loads(text).v.kids) |-> Loads(text).v.kids[i].key]

NonEmpty(v) == v \notin {None, JStr(""), JObj(<<>>), JArr(<<>>)}

(* the upstream answered 2xx and the whole body arrived *)
Answered == env.resp.kind = "ok"

(* the upstream's answer was an HTTP error status or a transport fault *)
Faulted == env.resp.kind \in {"http", "timeout", "fault", "read_timeout"}

(* the body is a JSON object *)
BodyIsObject == ValidUtf8(env.resp.body) /\ IsObject(env.resp.body)

(* the body is a JSON-RPC response holding result.value, an integer *)
BodyHasBalance ==
  /\ BodyIsObject
  /\ Field(env.resp.body, "result").t = "obj"
  /\ HasKey(Field(env.resp.body, "result"), "value")
  /\ Item(Field(env.resp.body, "result"), "value").t \in {"int", "bool"}

(* the candidates in the order the specification gives *)
Candidate1 == "/workspace/said.json"
Candidate2 == "/home/agent/.nanobot/said.json"
Candidate3 == "/home/agent/.config/said/identity.json"
Candidates == <<Candidate1, Candidate2, Candidate3>>

(* the file exists, opens and reads *)
Opens(path) ==
  /\ env.fs[path].exists
  /\ env.fs[path].readable
  /\ ValidUtf8(env.fs[path].content)

SomeOpens == \E i \in 1..3 : Opens(Candidates[i])

(* the first candidate that exists and is readable *)
FirstOpen == Candidates[CHOOSE i \in 1..3 : Opens(Candidates[i]) /\ \A k \in 1..(i - 1) : ~Opens(Candidates[k])]

NotFoundText ==
  <<P("{"), StrLex("error"), P(":"), WS(" "),
    StrLex("SAID identity not found. Register first with register_said_agent."), P("}")>>

NotVerifiedText(msg) ==
  <<P("{"), StrLex("verified"), P(":"), WS(" "), Lit("false"), P(","), WS(" "),
    StrLex("error"), P(":"), WS(" "), StrLex(msg), P("}")>>

(* the failures of execute that the specification lists *)
Failure ==
  \/ tool \in NetworkTools /\ Faulted
  \/ tool = "get_sol_balance" /\ Answered /\ ~BodyHasBalance
  \/ tool \in {"verify_said_agent", "register_said_agent"} /\ Answered /\ ~BodyIsObject
  \/ tool \in {"lookup_said_agent", "get_trust_score"} /\ Answered /\ ~ValidUtf8(env.resp.body)
  \/ tool = "get_my_said_identity" /\ (~env.home.ok \/ ~SomeOpens)

----------------------------------------------------------------------------
(* C1: every tool, on every failure of its execute (timeout, transport
   fault, HTTP error status, malformed or absent JSON-RPC result, missing or
   unreadable file, failure while the candidate paths are built), returns a
   JSON string with a non-empty error field, with verified: false for
   verification and success: false for registration, and never raises. *)
C1_FailureIsReported ==
  Failure =>
    /\ outcome = "returned"
    /\ IsObject(result)
    /\ NonEmpty(Field(result, "error"))
    /\ tool = "verify_said_agent" => Field(result, "verified") = JFalse
    /\ tool = "register_said_agent" => Field(result, "success") = JFalse

(* C2, as stated: whatever a tool hands back is parseable JSON, for every
   200 body and every identity file content. *)
C2_AlwaysParseable == outcome = "returned" => IsJSON(result)

(* the call handed back a text it did not build: a 200 body, or a file *)
PassedThrough ==
  \/ tool \in {"lookup_said_agent", "get_trust_score"} /\ Answered /\ ValidUtf8(env.resp.body)
  \/ tool = "get_my_said_identity" /\ env.home.ok /\ SomeOpens

PassedText ==
  IF tool = "get_my_said_identity" THEN env.fs[FirstOpen].content ELSE env.resp.body

(* C2, amended: a string the tool builds itself is parseable JSON; a 200
   body handed back by lookup_said_agent or get_trust_score, and a file
   content handed back by get_my_said_identity, is parseable JSON exactly
   when that body or that content is. *)
C2_ParseableUnlessPassedThrough ==
  outcome = "returned" =>
    IF PassedThrough THEN IsJSON(result) <=> IsJSON(PassedText) ELSE IsJSON(result)

(* C2, reached: lookup_said_agent hands back a 200 body that is no JSON *)
C2_Witness ==
  /\ tool = "lookup_said_agent"
  /\ Answered
  /\ outcome = "returned"
  /\ result = <<Junk("<html>")>>
  /\ ~IsJSON(result)

(* C3: get_my_said_identity looks at <workspace>/said.json, then
   <home>/.nanobot/said.json, then <home>/.config/said/identity.json, and
   returns the content of the first one that exists and is readable,
   unchanged; never a later one's content. *)
C3_FirstReadableWins ==
  (tool = "get_my_said_identity" /\ SomeOpens) =>
    /\ outcome = "returned"
    /\ result = env.fs[FirstOpen].content

(* C4: a candidate that exists but fails to open or read does not end the
   scan, and the result is the not-found document exactly when no candidate
   exists and opens. *)
C4_NotFoundExactlyWhenNoneOpens ==
  tool = "get_my_said_identity" =>
    /\ ~SomeOpens <=> (outcome = "returned" /\ result = NotFoundText)
    /\ SomeOpens =>
         /\ outcome = "returned"
         /\ effects # <<>>
         /\ effects[Len(effects)].op = "open"
         /\ effects[Len(effects)].url = FirstOpen

(* C5: verify_said_agent on HTTP 404 returns exactly {"verified": false,
   "error": "Agent not found in SAID registry"} whatever the body and the
   wallet; on any other HTTP error status or transport fault it returns
   verified: false with the fault's message; verified: true is returned only
   after a successful response. *)
C5_VerifyFaults ==
  tool = "verify_said_agent" =>
    /\ outcome = "returned"
    /\ (env.resp.kind = "http" /\ env.resp.code = 404) =>
         result = NotVerifiedText("Agent not found in SAID registry")
    /\ (Faulted /\ ~(env.resp.kind = "http" /\ env.resp.code = 404)) =>
         result = NotVerifiedText(env.resp.msg)
    /\ (IsObject(result) /\ Field(result, "verified") = JTrue) => Answered

(* C5, reached: a 404 with a body gives the fixed document *)
C5_Witness ==
  /\ tool = "verify_said_agent"
  /\ env.resp.kind = "http"
  /\ env.resp.code = 404
  /\ env.resp.body # <<>>
  /\ result = NotVerifiedText("Agent not found in SAID registry")

(* C6: get_sol_balance, whenever the JSON-RPC response carries an error
   field, returns {"error": E} with E that field's value, whatever else the
   response holds (a result field too, a null result, a result without
   value). *)
C6_RpcErrorVerbatim ==
  (tool = "get_sol_balance" /\ Answered /\ BodyIsObject /\ HasKey(Loads(env.resp.body).v, "error")) =>
    /\ outcome = "returned"
    /\ IsObject(result)
    /\ Keys(result) = <<"error">>
    /\ Field(result, "error") = Field(env.resp.body, "error")

(* the POST body the specification gives for registration *)
RegistrationText(wallet, name, description) ==
  <<P("{"), StrLex("wallet"), P(":"), WS(" "), StrLex(wallet), P(","), WS(" "),
    StrLex("name"), P(":"), WS(" "), StrLex(name), P(","), WS(" "),
    StrLex("description"), P(":"), WS(" "), StrLex(description), P("}")>>

(* C7: register_said_agent sends the description "{name} - AI Agent" when
   the description argument is absent or empty ("Bot1 - AI Agent" for name
   "Bot1") and the caller's description unchanged when it is a non-empty
   string; wallet and name are sent as given. *)
C7_DefaultDescription ==
  tool = "register_said_agent" =>
    /\ Len(effects) >= 1
    /\ effects[1].method = "POST"
    /\ effects[1].data =
         RegistrationText(args.wallet, args.name,
           IF args.description.given /\ args.description.val # ""
           THEN args.description.val
           ELSE IF args.name = "Bot1" THEN "Bot1 - AI Agent" ELSE "Zed - AI Agent")

(* C7, reached: name "Bot1" with an empty description *)
C7_Witness ==
  /\ tool = "register_said_agent"
  /\ args.name = "Bot1"
  /\ args.description = [given |-> TRUE, val |-> ""]
  /\ IsObject(effects[1].data)
  /\ Field(effects[1].data, "description") = JStr("Bot1 - AI Agent")

ReshapedKeys ==
  <<"verified", "name", "wallet", "pda", "isVerified", "reputationScore",
    "description", "profile">>

(* the result is the reshaped record of the body, for the wallet asked *)
IsReshaped ==
  /\ IsObject(result)
  /\ Keys(result) = ReshapedKeys
  /\ Field(result, "verified") = JTrue
  /\ \A k \in {"name", "wallet", "pda", "isVerified", "reputationScore", "description"} :
       Field(result, k) = Field(env.resp.body, k)
  /\ Field(result, "profile") =
       JStr("https://www.saidprotocol.com/agent.html?wallet=" \o args.wallet)

(* C8, as stated: on a 200 response lookup_said_agent and get_trust_score
   return the body byte for byte, for every body, and verify_said_agent never
   returns the body as is but always the reshaped record. *)
C8_PassThroughAndReshape ==
  Answered =>
    /\ tool \in {"lookup_said_agent", "get_trust_score"} =>
         (outcome = "returned" /\ result = env.resp.body)
    /\ tool = "verify_said_agent" =>
         (outcome = "returned" /\ result # env.resp.body /\ IsReshaped)

(* C8, amended: on a 200 response whose body is valid UTF-8 the two lookups
   return the body unchanged, and a body that is not valid UTF-8 gives
   {"error": message}; verify_said_agent on a 200 response whose body is a
   JSON object returns the reshaped record, and on any other 200 body
   {"verified": false, "error": message}. *)
C8_PassThroughDecoded ==
  Answered =>
    /\ tool \in {"lookup_said_agent", "get_trust_score"} =>
         /\ outcome = "returned"
         /\ IF ValidUtf8(env.resp.body) THEN result = env.resp.body
            ELSE /\ IsObject(result)
                 /\ Keys(result) = <<"error">>
                 /\ Field(result, "error").t = "str"
                 /\ NonEmpty(Field(result, "error"))
    /\ tool = "verify_said_agent" =>
         /\ outcome = "returned"
         /\ IF BodyIsObject THEN IsReshaped
            ELSE /\ IsObject(result)
                 /\ Keys(result) = <<"verified", "error">>
                 /\ Field(result, "verified") = JFalse
                 /\ NonEmpty(Field(result, "error"))

(* C8, reached: get_trust_score hands back a 200 body whose layout is not
   the one json.dumps would give *)
C8_Witness ==
  /\ tool = "get_trust_score"
  /\ Answered
  /\ IsJSON(env.resp.body)
  /\ env.resp.body # Dumps(Loads(env.resp.body).v)
  /\ result = env.resp.body

(* C9: a call of a network tool issues at most one request, also after a
   timeout or another fault, so the registration POST is sent at most once;
   get_my_said_identity issues no request; no tool writes a file. *)
C9_AtMostOneRequest ==
  /\ tool \in NetworkTools =>
       /\ Len(effects) <= 1
       /\ \A i \in 1..Len(effects) : effects[i].op = "request"
  /\ tool = "get_my_said_identity" =>
       \A i \in 1..Len(effects) : effects[i].op \in {"stat", "open"} /\ effects[i].method = "r"
  /\ \A i \in 1..Len(effects) : effects[i].op # "write"

(* C9, reached: the registration timed out and one POST was sent *)
C9_Witness ==
  /\ tool = "register_said_agent"
  /\ env.resp.kind = "timeout"
  /\ Len(effects) = 1
  /\ effects[1].method = "POST"
  /\ Field(result, "success") = JFalse

(* the lamports the endpoint returned *)
Lamports == Item(Field(env.resp.body, "result"), "value")

RECURSIVE BitsToInt(_)
BitsToInt(bits) ==
  IF bits = <<>> THEN 0 ELSE 2 * BitsToInt(SubSeq(bits, 1, Len(bits) - 1)) + bits[Len(bits)]

(* the double x = hi + 0.f is (l.hi * 10^9 + l.lo) / 10^9: x * 10^9 is an
   integer only when f has at most nine digits, and then it is
   hi * 10^9 + f * 5^9 *)
IsQuotient(x, l) ==
  /\ x.t = "float"
  /\ x.hi = l.hi
  /\ Len(x.f) <= 9
  /\ l.lo = BitsToInt(x.f \o [i \in 1..(9 - Len(x.f)) |-> 0]) * 1953125

BalanceReturned ==
  /\ tool = "get_sol_balance"
  /\ Answered
  /\ BodyHasBalance
  /\ Lamports.t = "int"

(* C10, as stated: for every lamport count L >= 0 the success result carries
   the address, balance_lamports = L and balance_sol = L / 1_000_000_000
   exactly. *)
C10_ExactSol ==
  BalanceReturned =>
    /\ IsObject(result)
    /\ Field(result, "address") = JStr(args.address)
    /\ Field(result, "balance_lamports") = Lamports
    /\ IsQuotient(Field(result, "balance_sol"), Lamports)

(* C10, amended: the success result carries the address and
   balance_lamports = L; balance_sol is L / 1_000_000_000 rounded to a
   double, which is the quotient exactly when, and only when, L is a
   multiple of 1_953_125 lamports. *)
C10_ExactSolForMultiples ==
  BalanceReturned =>
    /\ IsObject(result)
    /\ Keys(result) = <<"address", "balance_sol", "balance_lamports">>
    /\ Field(result, "address") = JStr(args.address)
    /\ Field(result, "balance_lamports") = Lamports
    /\ Field(result, "balance_sol").t = "float"
    /\ IsQuotient(Field(result, "balance_sol"), Lamports) <=> (Lamports.lo % 1953125 = 0)

(* C10, reached: 8_388_608_000_000_001 lamports are reported with the
   balance_sol of 8_388_608_000_000_002 lamports, 8388608 + 2^-29 *)
C10_Witness ==
  /\ BalanceReturned
  /\ Lamports = JInt(8388608, 1)
  /\ Field(result, "balance_lamports") = JInt(8388608, 1)
  /\ Field(result, "balance_sol") = JFloat(8388608, [i \in 1..29 |-> IF i = 29 THEN 1 ELSE 0])
  /\ Field(result, "balance_sol") = TrueDiv(8388608, 2)

====
